---- MODULE Spec2Model ----
(***************************************************************************)
(* A model of src/network_analysis.py: the batch driver main(), the        *)
(* stages read_df, network_analysis, network_csv and plot_network, and the *)
(* pure helper scale().                                                    *)
(*                                                                         *)
(* numpy's float64 values are modelled as binary floating-point numbers    *)
(* with a Precision-bit significand, round-to-nearest-even and an          *)
(* unbounded exponent (no overflow, no subnormals).  A float is a pair     *)
(* <<n, d>> standing for n/d with d a power of two and n/d in lowest       *)
(* terms; <<0, 0>> is NaN and <<1, 0>>, <<-1, 0>> are the infinities.      *)
(*                                                                         *)
(* The environment is taken to be the one the script expects: the output   *)
(* directory exists and is writable, and on the small graphs of the model  *)
(* nx.eigenvector_centrality converges, so that the exceptions of a run    *)
(* are those its input files cause.                                        *)
(***************************************************************************)
EXTENDS Integers, Sequences, FiniteSets, TLC

\* ------------------------------------------------------------ bounds
Precision == 4
MaxLen == 3

\* ------------------------------------------------- float64 arithmetic
Pow2(k) == 2 ^ k

Abs(n) == IF n < 0 THEN -n ELSE n

Sign(n) == IF n < 0 THEN -1 ELSE 1

NaN == <<0, 0>>

IsFinite(x) == x[2] > 0

Twice(x) == IF x[2] > 1 THEN <<x[1], x[2] \div 2>> ELSE <<2 * x[1], 1>>

Half(x) == IF x[1] % 2 = 0 THEN <<x[1] \div 2, x[2]>> ELSE <<x[1], 2 * x[2]>>

\* m/d rounded to the nearest integer, ties to the even one.
RoundHalfEven(m, d) ==
    LET q == m \div d
        r == m % d
    IN  IF 2 * r < d THEN q
        ELSE IF 2 * r > d THEN q + 1
        ELSE IF q % 2 = 0 THEN q ELSE q + 1

\* The positive rational m/d rounded to Precision significant bits.
RECURSIVE RoundPos(_, _)
RoundPos(m, d) ==
    IF m >= d * Pow2(Precision) THEN Twice(RoundPos(m, 2 * d))
    ELSE IF m < d * Pow2(Precision - 1) THEN Half(RoundPos(2 * m, d))
    ELSE <<RoundHalfEven(m, d), 1>>

\* The rational n/d (d # 0) as a float.
Fl(n, d) ==
    IF n = 0 THEN <<0, 1>>
    ELSE LET r == RoundPos(Abs(n), Abs(d))
         IN  <<Sign(n) * Sign(d) * r[1], r[2]>>

FAdd(x, y) ==
    IF ~IsFinite(x) \/ ~IsFinite(y) THEN NaN
    ELSE Fl(x[1] * y[2] + y[1] * x[2], x[2] * y[2])

FSub(x, y) ==
    IF ~IsFinite(x) \/ ~IsFinite(y) THEN NaN
    ELSE Fl(x[1] * y[2] - y[1] * x[2], x[2] * y[2])

FMul(x, y) ==
    IF ~IsFinite(x) \/ ~IsFinite(y) THEN NaN
    ELSE Fl(x[1] * y[1], x[2] * y[2])

\* numpy true division: 0/0 is nan and v/0 is +-inf, with a warning only.
FDiv(x, y) ==
    IF ~IsFinite(x) \/ ~IsFinite(y) THEN NaN
    ELSE IF y[1] = 0 THEN (IF x[1] = 0 THEN NaN ELSE <<Sign(x[1]), 0>>)
    ELSE Fl(x[1] * y[2], x[2] * y[1])

\* x < y on finite floats.
FLess(x, y) == x[1] * y[2] < y[1] * x[2]

FLeq(x, y) == x[1] * y[2] <= y[1] * x[2]

\* Python's builtin min and max over a non-empty array.
RECURSIVE Min(_)
Min(x) ==
    IF Len(x) = 1 THEN x[1]
    ELSE LET m == Min(Tail(x)) IN IF FLess(m, x[1]) THEN m ELSE x[1]

RECURSIVE Max(_)
Max(x) ==
    IF Len(x) = 1 THEN x[1]
    ELSE LET m == Max(Tail(x)) IN IF FLess(x[1], m) THEN m ELSE x[1]

\* ---------------------------------------------------------- scale
\* scale with the final "+ a" left out.
ScaleNoShift(x, a, b) ==
    LET mn == Min(x)
        mx == Max(x)
    IN  [i \in 1..Len(x) |->
            FMul(FSub(b, a), FDiv(FSub(x[i], mn), FSub(mx, mn)))]

\* scale(x, a, b) on a non-empty array; on an empty one min(x) raises.
Scale(x, a, b) ==
    LET mn == Min(x)
        mx == Max(x)
    IN  [i \in 1..Len(x) |->
            FAdd(FMul(FSub(b, a), FDiv(FSub(x[i], mn), FSub(mx, mn))), a)]

\* scale(x, a, b) raises ValueError when x is empty: min() of an empty array.
ScaleRaises(x) == Len(x) = 0

\* -------------------------------------------------------- constants
\* "-l/--layout" values plot_network draws for.
Layouts == {"circular", "kamada_kawai", "spring", "random"}

NodeSizeMin == Fl(1200, 1)

NodeSizeMax == Fl(3500, 1)

EdgeWidthMin == Fl(3, 5)

EdgeWidthMax == Fl(7, 1)

DefaultNodeSize == Fl(2000, 1)

DefaultEdgeWidth == Fl(3, 4)

InfoFile == "[INFO] Input is a file. Network analysis ..."

InfoDirectory == "[INFO] Input is a directory. Network analysis ..."

InfoSuccess == "[INFO] Script success."

\* ------------------------------------------------------------ paths
\* A path is a sequence of characters; literal chunks of an f-string are kept
\* as one element each.
Range(s) == {s[i] : i \in 1..Len(s)}

RECURSIVE AfterLastSlash(_)
\* filepath.split("/")[-1]
AfterLastSlash(p) ==
    IF \E i \in 1..Len(p) : p[i] = "/"
    THEN LET i == CHOOSE j \in 1..Len(p) : p[j] = "/" /\ \A k \in 1..(j - 1) : p[k] # "/"
         IN  AfterLastSlash(SubSeq(p, i + 1, Len(p)))
    ELSE p

RECURSIVE BeforeFirstDot(_)
\* split_filename.split(".")[0]
BeforeFirstDot(s) ==
    IF s = <<>> \/ Head(s) = "." THEN <<>>
    ELSE <<Head(s)>> \o BeforeFirstDot(Tail(s))

\* read_df's "cleaned" file name.
FileOnly(filepath) == BeforeFirstDot(AfterLastSlash(filepath))

\* os.path.join(a, b) for a relative b.
PathJoin(a, b) ==
    IF a = <<>> THEN b
    ELSE IF a[Len(a)] = "/" THEN a \o b
    ELSE a \o <<"/">> \o b

EndsWith(s, t) == Len(s) >= Len(t) /\ SubSeq(s, Len(s) - Len(t) + 1, Len(s)) = t

\* fnmatch of a directory entry against '*.csv': hidden entries never match.
MatchesCsv(name) == EndsWith(name, <<".", "c", "s", "v">>) /\ Head(name) # "."

RECURSIVE GlobCsv(_, _)
\* glob.glob(os.path.join(input_name, '*.csv')) over the directory's entries.
GlobCsv(dir, entries) ==
    IF entries = <<>> THEN <<>>
    ELSE (IF MatchesCsv(Head(entries).name)
          THEN <<PathJoin(dir, Head(entries).name)>> ELSE <<>>)
         \o GlobCsv(dir, Tail(entries))

\* os.path.join('output', f'{file_name}_network.csv')
TablePath(file_name) == <<"output", "/">> \o file_name \o <<"_network.csv">>

\* os.path.join('output', f'{file_name}_{plot_style}_{n}_{e}.png')
ImagePath(file_name, plot_style, n, e) ==
    <<"output", "/">> \o file_name \o <<"_", plot_style, "_", n, "_", e, ".png">>

\* ------------------------------------------------------------ graph
\* A networkx Graph: nodes in insertion order, each node's neighbours in
\* insertion order, and the Weight attribute of every adjacency entry.
EmptyGraph == [nodes |-> <<>>, adj |-> <<>>, wt |-> <<>>]

AddNode(g, n) ==
    IF n \in Range(g.nodes) THEN g
    ELSE [g EXCEPT !.nodes = Append(@, n), !.adj = @ @@ (n :> <<>>)]

\* An adjacency that keeps every repetition of a pair, as a multigraph would.
AddNbrRepeated(g, u, v) == [g EXCEPT !.adj[u] = Append(@, v)]

AddNbr(g, u, v) ==
    IF v \in Range(g.adj[u]) THEN g
    ELSE [g EXCEPT !.adj[u] = Append(@, v)]

\* Graph.add_edge(u, v, Weight=w): a repeated pair keeps its place and takes
\* the new attribute value.
AddEdge(g, u, v, w) ==
    LET g1 == AddNbr(AddNbr(AddNode(AddNode(g, u), v), u, v), v, u)
    IN  [g1 EXCEPT !.wt = (<<u, v>> :> w) @@ (<<v, u>> :> w) @@ @]

RECURSIVE AddEdgesFrom(_, _)
AddEdgesFrom(g, rows) ==
    IF rows = <<>> THEN g
    ELSE AddEdgesFrom(AddEdge(g, Head(rows).Source, Head(rows).Target,
                              Head(rows).Weight), Tail(rows))

\* nx.from_pandas_edgelist(df, "Source", "Target", ["Weight"])
FromPandasEdgelist(rows) == AddEdgesFrom(EmptyGraph, rows)

\* G.degree()[n]: a self-loop counts twice.
Degree(g, n) == Len(g.adj[n]) + (IF n \in Range(g.adj[n]) THEN 1 ELSE 0)

\* dict(G.degree()), as the sequence of its items.
DegreeDict(g) == [i \in 1..Len(g.nodes) |-> <<g.nodes[i], Degree(g, g.nodes[i])>>]

\* nx.eigenvector_centrality(G) and nx.betweenness_centrality(G): one score
\* per node, in node order.  The scores themselves are left uninterpreted.
EigenvectorDict(g) == [i \in 1..Len(g.nodes) |-> <<g.nodes[i], <<"ev", g.nodes[i]>>>>]

BetweennessDict(g) == [i \in 1..Len(g.nodes) |-> <<g.nodes[i], <<"bc", g.nodes[i]>>>>]

RECURSIVE EdgesFrom(_, _)
\* G.edges(): every node in order, with its neighbours not yet visited.
EdgesFrom(g, i) ==
    IF i > Len(g.nodes) THEN <<>>
    ELSE LET n == g.nodes[i]
             seen == {g.nodes[j] : j \in 1..(i - 1)}
             fresh == SelectSeq(g.adj[n], LAMBDA v : v \notin seen)
         IN  [k \in 1..Len(fresh) |-> <<n, fresh[k]>>] \o EdgesFrom(g, i + 1)

Edges(g) == EdgesFrom(g, 1)

\* ----------------------------------------------------- network_csv
Keys(d) == {d[i][1] : i \in 1..Len(d)}

Get(d, k) == d[CHOOSE i \in 1..Len(d) : d[i][1] = k][2]

\* pandas' marker for a cell a short row does not fill.
Missing == <<"NaN", "">>

RECURSIVE KeyOrder(_, _)
\* The keys of the dicts ds in the order defaultdict dd first sees them.
KeyOrder(items, seen) ==
    IF items = <<>> THEN <<>>
    ELSE IF Head(items)[1] \in seen THEN KeyOrder(Tail(items), seen)
    ELSE <<Head(items)[1]>> \o KeyOrder(Tail(items), seen \cup {Head(items)[1]})

\* dd[key]: the values of key in (dg, ev, bc), in that order, each appended
\* where its dict holds the key.
Collected(d1, d2, d3, k) ==
    (IF k \in Keys(d1) THEN <<Get(d1, k)>> ELSE <<>>)
    \o (IF k \in Keys(d2) THEN <<Get(d2, k)>> ELSE <<>>)
    \o (IF k \in Keys(d3) THEN <<Get(d3, k)>> ELSE <<>>)

Pad(row, n) == row \o [i \in 1..(n - Len(row)) |-> Missing]

\* The lists of dd, in dd's key order.
DictLists(d1, d2, d3) ==
    LET ks == KeyOrder(d1 \o d2 \o d3, {})
    IN  [i \in 1..Len(ks) |-> <<ks[i], Collected(d1, d2, d3, ks[i])>>]

\* The widest list decides how many columns the data has.
Width(lists) ==
    IF lists = <<>> THEN 0
    ELSE CHOOSE n \in 0..3 :
            /\ \E i \in 1..Len(lists) : Len(lists[i][2]) = n
            /\ \A i \in 1..Len(lists) : Len(lists[i][2]) <= n

\* DataFrame.from_dict(dd, orient='index', columns=[3 names]) raises when the
\* data is not empty and has another number of columns than 3.
FromDictRaises(lists) == lists # <<>> /\ Width(lists) # 3

\* The rows <<Name, Degree, Eigenvector, Betweenness>> of df_network.
NetworkRows(lists) ==
    [i \in 1..Len(lists) |-> <<lists[i][1]>> \o Pad(lists[i][2], 3)]

\* ------------------------------------------------------------ state
VARIABLES
    argv,          \* the command line, as parse_args() returns it
    fs,            \* what argv.file_input names: its kind and its entries
    pc,            \* where the run is
    joined_paths,  \* main: the paths glob returned
    idx,           \* main: the position of the loop in joined_paths
    file,          \* main: the path handed to read_df
    df,            \* main: the dataframe read_df returned
    filename,      \* main: the file name read_df returned
    G, dg, ev, bc, \* main: what network_analysis returned
    tables,        \* output/*_network.csv: path -> what was written, by which file
    images,        \* output/*.png: path -> what was saved, by which file
    stdout,        \* the lines printed
    done,          \* history: the <<idx, stage>> steps completed, in order
    exc,           \* the exception that ended the run, "" when none
    sx, sa, sb,    \* scale: the arguments of a call
    sres           \* scale: what the call returned

vars == <<argv, fs, pc, joined_paths, idx, file, df, filename, G, dg, ev, bc,
          tables, images, stdout, done, exc, sx, sa, sb, sres>>

mainVars == <<joined_paths, idx, file>>

analysisVars == <<G, dg, ev, bc>>

scaleVars == <<sx, sa, sb, sres>>

\* ---------------------------------------------------------- inputs
MaxFiles == 2
MaxEdges == 3

F(n) == <<n, 1>>

Csv == <<".", "c", "s", "v">>

\* Directory entries: two names that differ only after their first '.', a
\* third name, and one that '*.csv' does not match.
EntryNames == {<<"a">> \o Csv, <<"a", ".", "b">> \o Csv, <<"b">> \o Csv,
               <<"b", ".", "t", "x", "t">>}

InputDir == <<"d">>

Row(s, t, w) == [Source |-> s, Target |-> t, Weight |-> w]

\* A file as read_csv sees it: whether it parses at all (a file of zero bytes
\* raises EmptyDataError), whether its header has the columns Source, Target
\* and Weight, and its records.
Frame(rows) == [parses |-> TRUE, cols |-> TRUE, rows |-> rows]

Triangle == Frame(<<Row("A", "B", F(1)), Row("B", "C", F(2)), Row("A", "C", <<3, 2>>)>>)

Repeated == Frame(<<Row("A", "B", F(1)), Row("B", "C", F(2)), Row("B", "A", F(3))>>)

HeaderOnly == Frame(<<>>)

NoColumns == [parses |-> TRUE, cols |-> FALSE, rows |-> <<>>]

EmptyFile == [parses |-> FALSE, cols |-> FALSE, rows |-> <<>>]

Catalogue == {Triangle, Repeated, HeaderOnly, NoColumns, EmptyFile}

Nodes == {"A", "B", "C"}

Weights == {F(1), F(2)}

Rows == {Row(s, t, w) : s \in Nodes, t \in Nodes, w \in Weights}

SeqsUpTo(S, n) == UNION {[1..k -> S] : k \in 0..n}

Distinct(s) == \A i, j \in 1..Len(s) : i # j => s[i] # s[j]

\* type=bool of argparse: the default 0, or bool() of the string given.
ArgBool == {"0", "True", "False"}

IsZero(v) == v \in {"0", "False"}

NoFrame == Frame(<<>>)

Idle ==
    /\ joined_paths = <<>> /\ idx = 0 /\ file = <<>>
    /\ df = NoFrame /\ filename = <<>>
    /\ G = EmptyGraph /\ dg = <<>> /\ ev = <<>> /\ bc = <<>>
    /\ tables = <<>> /\ images = <<>> /\ stdout = <<>> /\ done = <<>> /\ exc = ""

NoScale == sx = <<>> /\ sa = F(0) /\ sb = F(0) /\ sres = <<>>

\* A run over a directory of up to MaxFiles entries, in the order the
\* directory lists them, each entry one of the catalogue's files.
InitDir ==
    /\ \/ \E names \in {s \in SeqsUpTo(EntryNames, MaxFiles) : Distinct(s)} :
          \E data \in [1..Len(names) -> Catalogue] :
             fs = [kind |-> "dir",
                   entries |-> [i \in 1..Len(names) |->
                                  [name |-> names[i], data |-> data[i]]]]
       \/ fs = [kind |-> "none", entries |-> <<>>]
    /\ \E l \in Layouts \cup {"foo"}, e \in {"0", "True"} :
          argv = [file_input |-> InputDir, layout |-> l, node_size |-> e, edge_width |-> e]
    /\ pc = "main"
    /\ Idle /\ NoScale

\* Node names are opaque labels: up to renaming, the first record of an edge
\* list is ("A", "A", w) or ("A", "B", w).
Canonical(rows) ==
    rows = <<>> \/ (rows[1].Source = "A" /\ rows[1].Target \in {"A", "B"})

EdgeLists == {rows \in SeqsUpTo(Rows, MaxEdges) : Canonical(rows)} \cup {Triangle.rows}

\* A run over one file holding any edge list of up to MaxEdges records.
InitFile ==
    /\ \E rows \in EdgeLists :
          fs = [kind |-> "file",
                entries |-> <<[name |-> <<"a">> \o Csv, data |-> Frame(rows)]>>]
    /\ \E e \in ArgBool :
          argv = [file_input |-> PathJoin(InputDir, <<"a">> \o Csv), layout |-> "spring",
                  node_size |-> e, edge_width |-> e]
    /\ pc = "main"
    /\ Idle /\ NoScale

\* The content of the file at path.
Content(path) ==
    IF fs.kind = "file" THEN fs.entries[1].data
    ELSE (CHOOSE e \in Range(fs.entries) : PathJoin(argv.file_input, e.name) = path).data

Raise(e) == pc' = "raised" /\ exc' = e

\* ------------------------------------------------------------- main
\* main up to the first read_df: parse_args, isfile/isdir, glob, the first print.
Main ==
    /\ pc = "main"
    /\ IF fs.kind = "file"
       THEN /\ stdout' = Append(stdout, InfoFile)
            /\ file' = argv.file_input
            /\ UNCHANGED <<joined_paths, idx>>
            /\ pc' = "read"
       ELSE IF fs.kind = "dir"
       THEN LET paths == GlobCsv(argv.file_input, fs.entries)
            IN  /\ joined_paths' = paths
                /\ stdout' = Append(stdout, InfoDirectory)
                /\ IF paths = <<>>
                   THEN pc' = "success" /\ UNCHANGED <<idx, file>>
                   ELSE pc' = "read" /\ idx' = 1 /\ file' = paths[1]
       ELSE /\ pc' = "finished"
            /\ UNCHANGED <<stdout, mainVars>>
    /\ UNCHANGED <<argv, fs, df, filename, analysisVars, tables, images, done, exc,
                   scaleVars>>

Cur == IF fs.kind = "file" THEN 1 ELSE idx

\* df, filename = read_df(file)
ReadDf ==
    /\ pc = "read"
    /\ IF ~Content(file).parses
       THEN Raise("EmptyDataError") /\ UNCHANGED <<df, filename, done>>
       ELSE /\ df' = Content(file)
            /\ filename' = FileOnly(file)
            /\ done' = Append(done, <<Cur, "read">>)
            /\ pc' = "analysis"
            /\ exc' = exc
    /\ UNCHANGED <<argv, fs, mainVars, analysisVars, tables, images, stdout, scaleVars>>

\* G, dg, ev, bc = network_analysis(df)
NetworkAnalysis ==
    /\ pc = "analysis"
    /\ IF ~df.cols
       THEN Raise("KeyError") /\ UNCHANGED <<analysisVars, done>>
       ELSE IF df.rows = <<>>
       THEN Raise("NetworkXPointlessConcept") /\ UNCHANGED <<analysisVars, done>>
       ELSE LET g == FromPandasEdgelist(df.rows)
            IN  /\ G' = g
                /\ dg' = DegreeDict(g)
                /\ ev' = EigenvectorDict(g)
                /\ bc' = BetweennessDict(g)
                /\ done' = Append(done, <<Cur, "analysis">>)
                /\ pc' = "csv"
                /\ exc' = exc
    /\ UNCHANGED <<argv, fs, mainVars, df, filename, tables, images, stdout, scaleVars>>

\* network_csv(dg, ev, bc, filename)
NetworkCsv ==
    /\ pc = "csv"
    /\ LET lists == DictLists(dg, ev, bc)
       IN  IF FromDictRaises(lists)
           THEN Raise("ValueError") /\ UNCHANGED <<tables, done>>
           ELSE /\ tables' = (TablePath(filename) :> [by |-> Cur, rows |-> NetworkRows(lists)])
                             @@ tables
                /\ done' = Append(done, <<Cur, "csv">>)
                /\ pc' = "plot"
                /\ exc' = exc
    /\ UNCHANGED <<argv, fs, mainVars, df, filename, analysisVars, images, stdout,
                   scaleVars>>

\* df['Weight'].values
WeightColumn(rows) == [i \in 1..Len(rows) |-> rows[i].Weight]

\* plot_network(G, df, filename), and the step of main's loop after it.
PlotNetwork ==
    /\ pc = "plot"
    /\ LET plot_style == argv.layout
           n == argv.node_size
           e == argv.edge_width
           degrees == [i \in 1..Len(G.nodes) |-> F(Degree(G, G.nodes[i]))]
           scaled_sizes == Scale(degrees, NodeSizeMin, NodeSizeMax)
           scaled_weight == Scale(WeightColumn(df.rows), EdgeWidthMin, EdgeWidthMax)
           node_sizes == IF IsZero(n) THEN DefaultNodeSize ELSE scaled_sizes
           weight == IF IsZero(e) THEN DefaultEdgeWidth ELSE scaled_weight
           figure == IF plot_style \in Layouts
                     THEN [drawn |-> TRUE, layout |-> plot_style, width |-> weight,
                           node_size |-> node_sizes]
                     ELSE [drawn |-> FALSE, layout |-> "", width |-> <<>>,
                           node_size |-> <<>>]
       IN  IF ScaleRaises(degrees) \/ ScaleRaises(WeightColumn(df.rows))
           THEN Raise("ValueError") /\ UNCHANGED <<images, done, idx, file>>
           ELSE /\ images' = (ImagePath(filename, plot_style, n, e) :>
                                 [by |-> Cur, figure |-> figure]) @@ images
                /\ done' = Append(done, <<Cur, "plot">>)
                /\ exc' = exc
                /\ IF fs.kind = "dir" /\ idx < Len(joined_paths)
                   THEN pc' = "read" /\ idx' = idx + 1 /\ file' = joined_paths[idx + 1]
                   ELSE pc' = "success" /\ UNCHANGED <<idx, file>>
    /\ UNCHANGED <<argv, fs, joined_paths, df, filename, analysisVars, tables, stdout,
                   scaleVars>>

\* print('[INFO] Script success.')
PrintSuccess ==
    /\ pc = "success"
    /\ stdout' = Append(stdout, InfoSuccess)
    /\ pc' = "finished"
    /\ UNCHANGED <<argv, fs, mainVars, df, filename, analysisVars, tables, images, done,
                   exc, scaleVars>>

\* One call scale(sx, sa, sb).
ScaleCall ==
    /\ pc = "scale"
    /\ IF ScaleRaises(sx)
       THEN Raise("ValueError") /\ sres' = sres
       ELSE sres' = Scale(sx, sa, sb) /\ pc' = "scaled" /\ exc' = exc
    /\ UNCHANGED <<argv, fs, mainVars, df, filename, analysisVars, tables, images, stdout,
                   done, sx, sa, sb>>

Next ==
    \/ Main
    \/ ReadDf
    \/ NetworkAnalysis
    \/ NetworkCsv
    \/ PlotNetwork
    \/ PrintSuccess

Spec == InitDir /\ [][Next]_vars

SpecFile == InitFile /\ [][Next]_vars

\* ------------------------------------------- scale on bounded inputs
XVals == {F(1), F(2), F(3), F(5), <<3, 2>>}

RangeVals == {F(-2), F(-1), F(0), <<1, 8>>, F(1), F(3),
              NodeSizeMin, NodeSizeMax, EdgeWidthMin, EdgeWidthMax}

NoArgs == [file_input |-> <<>>, layout |-> "spring", node_size |-> "0", edge_width |-> "0"]

NoInput == [kind |-> "none", entries |-> <<>>]

InitScale ==
    /\ sx \in SeqsUpTo(XVals, MaxLen)
    /\ sa \in RangeVals
    /\ sb \in {b \in RangeVals : FLess(sa, b)}
    /\ sres = <<>>
    /\ pc = "scale"
    /\ argv = NoArgs /\ fs = NoInput
    /\ Idle

SpecScale == InitScale /\ [][ScaleCall]_vars

\* --------------------------------- network_csv on any three mappings
\* The dicts over Nodes, in every key order; the value of key k in the dict
\* tagged t is <<t, k>>.
Dicts(tag) ==
    {[i \in 1..Len(ks) |-> <<ks[i], <<tag, ks[i]>>>>] :
        ks \in {s \in SeqsUpTo(Nodes, Cardinality(Nodes)) : Distinct(s)}}

InitCsv ==
    /\ dg \in Dicts("dg") /\ ev \in Dicts("ev") /\ bc \in Dicts("bc")
    /\ pc = "csv"
    /\ argv = NoArgs
    /\ fs = [kind |-> "file", entries |-> <<>>]
    /\ joined_paths = <<>> /\ idx = 0 /\ file = <<>>
    /\ df = NoFrame /\ filename = <<"a">>
    /\ G = EmptyGraph
    /\ tables = <<>> /\ images = <<>> /\ stdout = <<>> /\ done = <<>> /\ exc = ""
    /\ NoScale

SpecCsv == InitCsv /\ [][NetworkCsv]_vars

\* ------------------------------------------------------- properties
Terminated == pc \in {"finished", "raised"}

\* A file every stage accepts: parses, with the three columns and a record.
Healthy(data) == data.parses /\ data.cols /\ data.rows # <<>>

Completed(j, stage) == \E p \in 1..Len(done) : done[p] = <<j, stage>>

Times(j, stage) == Cardinality({p \in 1..Len(done) : done[p] = <<j, stage>>})

Stages == {"read", "analysis", "csv", "plot"}

SuccessLines == Cardinality({i \in 1..Len(stdout) : stdout[i] = InfoSuccess})

\* C1: in a directory batch a failure on one file is caught and every other
\* file is still processed: when the run has ended, the table and the image
\* of every healthy file of the batch have been written.
C1_BatchContinues ==
    (fs.kind = "dir" /\ Terminated) =>
        \A j \in 1..Len(joined_paths) :
            Healthy(Content(joined_paths[j])) =>
                Completed(j, "csv") /\ Completed(j, "plot")

\* C2: for a layout selector outside the four layouts plot_network fails
\* with UnknownLayoutError and writes no image: it never returns, and when
\* it has been left the run holds that error.
C2_UnknownLayoutFails ==
    argv.layout \notin Layouts =>
        /\ images = <<>>
        /\ \A p \in 1..Len(done) : done[p][2] # "plot"
        /\ (done # <<>> /\ done[Len(done)][2] = "csv" /\ pc # "plot") =>
               (pc = "raised" /\ exc = "UnknownLayoutError")

AllEqual(x) == \A i, j \in 1..Len(x) : x[i] = x[j]

\* C3: scale(x, a, b) with a < b on an array of equal values signals
\* DegenerateRangeError or returns one defined constant within [a, b] for
\* every element, never NaN.
C3_DegenerateDefined ==
    (pc # "scale" /\ Len(sx) > 0 /\ AllEqual(sx)) =>
        \/ exc = "DegenerateRangeError"
        \/ /\ pc = "scaled"
           /\ Len(sres) = Len(sx)
           /\ \A i \in 1..Len(sres) :
                /\ IsFinite(sres[i])
                /\ sres[i] = sres[1]
                /\ FLeq(sa, sres[i]) /\ FLeq(sres[i], sb)

Cell(d, k) == IF k \in Keys(d) THEN Get(d, k) ELSE Missing

\* C4: network_csv writes exactly one record per key of the union of the
\* three key sets, and the Degree, Eigenvector and Betweenness cells of a
\* record hold that key's value in dg, ev and bc, or the missing marker.
C4_UnionRecords ==
    pc # "csv" =>
        /\ pc = "plot"
        /\ TablePath(filename) \in DOMAIN tables
        /\ LET rows == tables[TablePath(filename)].rows
               keys == Keys(dg) \cup Keys(ev) \cup Keys(bc)
           IN  /\ Len(rows) = Cardinality(keys)
               /\ {rows[i][1] : i \in 1..Len(rows)} = keys
               /\ \A i \in 1..Len(rows) :
                    /\ rows[i][2] = Cell(dg, rows[i][1])
                    /\ rows[i][3] = Cell(ev, rows[i][1])
                    /\ rows[i][4] = Cell(bc, rows[i][1])

\* The nodes and the distinct edges of an edge list, read off its records.
RecordNodes(rows) == {r.Source : r \in Range(rows)} \cup {r.Target : r \in Range(rows)}

IncidentPairs(rows, n) ==
    {{r.Source, r.Target} : r \in {q \in Range(rows) : n \in {q.Source, q.Target}}}

IncidentProper(rows, n) ==
    {{r.Source, r.Target} :
        r \in {q \in Range(rows) : n \in {q.Source, q.Target} /\ q.Source # q.Target}}

HasLoop(rows, n) == \E r \in Range(rows) : r.Source = n /\ r.Target = n

Analysed == pc \in {"csv", "plot", "success", "finished"}

TableWritten == pc \in {"plot", "success", "finished"}

\* C5 as stated: the degree map has one entry per node and each entry is
\* the number of distinct edges incident to the node.
C5_DegreeIsIncidentEdges ==
    Analysed =>
        /\ Len(dg) = Cardinality(RecordNodes(df.rows))
        /\ Keys(dg) = RecordNodes(df.rows)
        /\ \A n \in Keys(dg) : Get(dg, n) = Cardinality(IncidentPairs(df.rows, n))

\* C5, amended: the degree map has exactly one entry per node; each entry
\* is the number of distinct edges to other nodes plus two for a self-loop;
\* the result table has one row per node.
C5_DegreeLoopsTwice ==
    /\ Analysed =>
        /\ Len(dg) = Cardinality(RecordNodes(df.rows))
        /\ Keys(dg) = RecordNodes(df.rows)
        /\ \A n \in Keys(dg) :
              Get(dg, n) = Cardinality(IncidentProper(df.rows, n))
                           + (IF HasLoop(df.rows, n) THEN 2 ELSE 0)
    /\ TableWritten =>
        Len(tables[TablePath(filename)].rows) = Cardinality(RecordNodes(df.rows))

\* The spec's example: three nodes of degree 2 and a table of three rows.
C5_Witness ==
    /\ pc = "finished"
    /\ df.rows = Triangle.rows
    /\ Len(dg) = 3
    /\ \A n \in {"A", "B", "C"} : Get(dg, n) = 2
    /\ Len(tables[TablePath(filename)].rows) = 3

TwoDistinct(x) == \E i, j \in 1..Len(x) : x[i] # x[j]

Scaled == pc = "scaled" /\ TwoDistinct(sx)

OrderKept(x, y) == \A i, j \in 1..Len(x) : FLeq(x[i], x[j]) => FLeq(y[i], y[j])

Top(a, b) == FAdd(FSub(b, a), a)

C7_DistinctOutputs ==
    \A i, j \in 1..Len(joined_paths) :
        (i # j /\ joined_paths[i] # joined_paths[j]) =>
            /\ (Completed(i, "csv") /\ Completed(j, "csv")) =>
                   TablePath(FileOnly(joined_paths[i])) # TablePath(FileOnly(joined_paths[j]))
            /\ (Completed(i, "plot") /\ Completed(j, "plot")) =>
                   ImagePath(FileOnly(joined_paths[i]), argv.layout, argv.node_size,
                             argv.edge_width)
                   # ImagePath(FileOnly(joined_paths[j]), argv.layout, argv.node_size,
                               argv.edge_width)

\* C8: one success line per file, printed when the file completes: whenever
\* the next file is about to be read or the run has finished, a non-empty
\* batch has printed as many success lines as files have completed.
C8_SuccessPerFile ==
    (fs.kind = "dir" /\ joined_paths # <<>> /\ pc \in {"read", "finished"}) =>
        SuccessLines = Cardinality({j \in 1..Len(joined_paths) : Completed(j, "plot")})

\* The stages of the batch run in file order, none twice.
SequentialStages ==
    /\ \A p, q \in 1..Len(done) : p < q => done[p][1] <= done[q][1]
    /\ \A j \in 1..Len(joined_paths) : \A st \in Stages : Times(j, st) <= 1

\* C9: files are processed one after another, and each matched file goes
\* through every stage exactly once per run.
C9_EveryStageOnce ==
    fs.kind = "dir" =>
        /\ SequentialStages
        /\ Terminated =>
              \A j \in 1..Len(joined_paths) :
                  Healthy(Content(joined_paths[j])) =>
                      \A st \in Stages : Times(j, st) = 1

\* The Weight of every edge of G, in the order of G.edges().
EdgeWeights(g) == [k \in 1..Len(Edges(g)) |-> g.wt[Edges(g)[k]]]

\* C10: with edge-width scaling requested, the width array handed to the
\* renderer has one entry per edge of G, entry k being the scaled weight of
\* the k-th edge.
C10_WidthPerEdge ==
    \A path \in DOMAIN images :
        (images[path].figure.drawn /\ ~IsZero(argv.edge_width)) =>
            /\ Len(images[path].figure.width) = Len(Edges(G))
            /\ images[path].figure.width
                  = Scale(EdgeWeights(G), EdgeWidthMin, EdgeWidthMax)

====
